---------------------------- MODULE Spec2Model ----------------------------
(***************************************************************************)
(* Choreo: the timeline and pose-resolution engine (state/useChoreo.tsx,   *)
(* domain/pictureService.ts) and the audio transport it drives             *)
(* (state/useTransport.tsx).                                               *)
(*                                                                         *)
(* Times are integers in milliseconds (1000 = 1 s), so the 0.001 s move    *)
(* floor of the source is 1.  Stage coordinates are exact rationals        *)
(* [n, d]; floating-point rounding of the source is not modelled.          *)
(***************************************************************************)
EXTENDS Integers, Sequences, FiniteSets, TLC

VARIABLES
    sequences,          \* useChoreo: sequences state (list of Sequence)
    activeSequenceId,   \* useChoreo: activeSequenceId state and activeIdRef (0 = null)
    nextId,             \* uid(): the next fresh identifier
    effectPending,      \* the clip-sync effect's dependencies changed and it has not run yet
    versions,           \* useChoreo: versions state (list of ChoreoVersion, newest first)
    loadToken,          \* useChoreo: loadToken state
    nextVer,            \* uid("ver"): the next fresh version identifier
    aliased,            \* <<version id, picture id>>: that snapshot's picture is the
                        \* very object the live state holds under that id
    t_durationSec,      \* useTransport: durationSec state / bufferRef duration (0 = no audio)
    t_isPlaying,        \* useTransport: isPlaying state and isPlayingRef
    t_currentSec,       \* useTransport: currentSec state
    offsetSec,          \* useTransport: offsetSecRef
    clockSec,           \* audio clock: ctx.currentTime - startedAtCtxTimeRef
    loopEnabled,        \* useTransport: loopEnabled state and ref
    loopA,              \* useTransport: loopA state and ref (optional number)
    loopB,              \* useTransport: loopB state and ref (optional number)
    source,             \* useTransport: sourceRef, the buffer source node now playing
    pendingStarts,      \* startAt() calls suspended on `await ctx.resume()`
    pendingLoads,       \* loadAudioFile() calls suspended on the decode
    audioName,          \* useTransport: audioName state, the file last handed to
                        \* loadAudioFile (a file is named by its decoded length, 0 = null)
    endedQueue,         \* 'ended' events of stopped sources not yet dispatched
    lastOp,             \* history: name of the operation performed last
    lastArg,            \* history: its (numeric) argument
    lastOut             \* history: its return value

storeVars     == <<versions, loadToken, nextVer, aliased>>
choreoVars    == <<sequences, activeSequenceId, nextId, effectPending,
                   versions, loadToken, nextVer, aliased>>
transportVars == <<t_durationSec, t_isPlaying, t_currentSec, offsetSec, clockSec,
                   loopEnabled, loopA, loopB, source, pendingStarts, pendingLoads,
                   audioName, endedQueue>>
histVars      == <<lastOp, lastArg, lastOut>>
vars          == <<sequences, activeSequenceId, nextId, effectPending,
                   versions, loadToken, nextVer, aliased,
                   t_durationSec, t_isPlaying, t_currentSec, offsetSec, clockSec,
                   loopEnabled, loopA, loopB, source, pendingStarts, pendingLoads,
                   audioName, endedQueue,
                   lastOp, lastArg, lastOut>>

----------------------------------------------------------------------------
(* Bounds *)

MaxPics          == 3   \* pictures per sequence in the pure-function specifications
MaxIds           == 3   \* identifiers uid() hands out in a behaviour of Spec
MaxPendingStarts == 1   \* startAt() calls suspended at once
MaxPendingLoads  == 1   \* loadAudioFile() calls suspended at once
MaxClockSteps    == 3   \* clock advances between two (re)starts of the source
MaxLoadToken     == 2   \* restores and imports in a behaviour
MaxVersionIds    == 52  \* versions saved in a behaviour
MaxSnapshots     == 1   \* versions saved in a behaviour of SpecStore

----------------------------------------------------------------------------
(* Numbers *)

Max(a, b) == IF a >= b THEN a ELSE b
Min(a, b) == IF a <= b THEN a ELSE b
Abs(a)    == IF a < 0 THEN -a ELSE a

\* const clamp = (v, lo, hi) => Math.max(lo, Math.min(hi, v))
clamp(v, lo, hi) == Max(lo, Min(hi, v))

RECURSIVE GCD(_, _)
GCD(a, b) == IF b = 0 THEN a ELSE GCD(b, a % b)

\* a rational in lowest terms with a positive denominator
Norm(n, d) ==
    LET g == GCD(Abs(n), d)
    IN  IF n = 0 THEN [n |-> 0, d |-> 1] ELSE [n |-> n \div g, d |-> d \div g]

Rat(i)       == [n |-> i, d |-> 1]
RatAdd(p, q) == Norm(p.n * q.d + q.n * p.d, p.d * q.d)
RatSub(p, q) == Norm(p.n * q.d - q.n * p.d, p.d * q.d)
RatMul(p, q) == Norm(p.n * q.n, p.d * q.d)
RatLt(p, q)  == p.n * q.d < q.n * p.d
RatMax(p, q) == IF RatLt(p, q) THEN q ELSE p
RatMin(p, q) == IF RatLt(q, p) THEN q ELSE p
RatClamp(v, lo, hi) == RatMax(lo, RatMin(hi, v))

\* const lerp = (a, b, t) => a + (b - a) * t
lerp(a, b, t) == RatAdd(a, RatMul(RatSub(b, a), t))

----------------------------------------------------------------------------
(* Data model *)

Dancers == {"d1", "d2"}

\* Vec2; fin = FALSE stands for a vector with a NaN / infinite coordinate
Vec(x, y) == [x |-> Rat(x), y |-> Rat(y), fin |-> TRUE]
NaNVec    == [x |-> Rat(0), y |-> Rat(0), fin |-> FALSE]

\* a + (b - a) * k on x and y; any non-finite operand gives a non-finite result
lerpVec(pa, pb, k) ==
    IF pa.fin /\ pb.fin
    THEN [x |-> lerp(pa.x, pb.x, k), y |-> lerp(pa.y, pb.y, k), fin |-> TRUE]
    ELSE NaNVec

EmptyPositions == [d \in {} |-> NaNVec]

\* optional number (musicStartSec?: number, loopA: number | null)
None    == [has |-> FALSE, val |-> 0]
Some(v) == [has |-> TRUE, val |-> v]

Picture(id, kind, positions, holdSec, moveSec) ==
    [id |-> id, kind |-> kind, positions |-> positions,
     holdSec |-> holdSec, moveSec |-> moveSec]

SeqOf(id, pics) ==
    [id |-> id, pictures |-> pics, musicStartSec |-> None, musicEndSec |-> None]

\* a positions map from one choice per dancer: 0 = absent
MkPositions(c1, c2) ==
    [id \in {d \in Dancers : (d = "d1" /\ c1 # 0) \/ (d = "d2" /\ c2 # 0)} |->
        IF id = "d1" THEN (IF c1 = 1 THEN Vec(0, 0) ELSE Vec(40, 80))
        ELSE (IF c2 = 1 THEN Vec(20, 20) ELSE NaNVec)]

EPS            == 1      \* Math.max(0.001, ...) : the minimum transition floor
DefaultMoveSec == 2000   \* p.moveSec || 2

NaNSec         == -1     \* the number NaN: no handler stores a negative duration

\* Math.max(0, p.holdSec || 0) : NaN is falsy and becomes 0
HoldOf(p) == IF p.holdSec = NaNSec THEN 0 ELSE Max(0, p.holdSec)
\* Math.max(0.001, p.moveSec || 2) : a moveSec of 0 or NaN is falsy and becomes 2
MoveOf(p) ==
    Max(EPS, IF p.moveSec = 0 \/ p.moveSec = NaNSec THEN DefaultMoveSec ELSE p.moveSec)

\* getActiveSequence(): the active sequence, as a list of zero or one element
getActiveSequence ==
    IF activeSequenceId = 0 THEN <<>>
    ELSE SelectSeq(sequences, LAMBDA s : s.id = activeSequenceId)

HasActive  == Len(getActiveSequence) > 0
ActiveSeq  == getActiveSequence[1]
ActivePics == IF HasActive THEN ActiveSeq.pictures ELSE <<>>

----------------------------------------------------------------------------
(* Timeline arithmetic *)

\* the loop of picturesDurationSec / getPictureStartSec over pictures 1..n
RECURSIVE SumSegments(_, _)
SumSegments(pics, n) ==
    IF n <= 0 THEN 0
    ELSE SumSegments(pics, n - 1) + HoldOf(pics[n]) + MoveOf(pics[n])

picturesDurationSec ==
    IF ~HasActive \/ Len(ActivePics) < 2 THEN 0
    ELSE SumSegments(ActivePics, Len(ActivePics) - 1)

\* pictureIndex is the source's 0-based index
getPictureStartSec(pictureIndex) ==
    IF ~HasActive \/ pictureIndex <= 0 THEN 0
    ELSE SumSegments(ActivePics, Min(pictureIndex, Len(ActivePics) - 1))

----------------------------------------------------------------------------
(* Pose evaluation *)

NullPose        == [null |-> TRUE, pos |-> EmptyPositions]
PoseOf(positions) == [null |-> FALSE, pos |-> positions]

\* MovePose with a missing side read as the origin instead of the other side
MovePoseFromOrigin(a, b, k) ==
    [id \in (DOMAIN a.positions) \cup (DOMAIN b.positions) |->
        LET pa == IF id \in DOMAIN a.positions THEN a.positions[id] ELSE Vec(0, 0)
            pb == IF id \in DOMAIN b.positions THEN b.positions[id] ELSE Vec(0, 0)
        IN  lerpVec(pa, pb, k)]

\* the MOVE branch: every id of either map, each side falling back to the other
MovePose(a, b, k) ==
    [id \in (DOMAIN a.positions) \cup (DOMAIN b.positions) |->
        LET pa == IF id \in DOMAIN a.positions THEN a.positions[id] ELSE b.positions[id]
            pb == IF id \in DOMAIN b.positions THEN b.positions[id] ELSE a.positions[id]
        IN  lerpVec(pa, pb, k)]

\* the for-loop of getPoseAtSec from pair i (1-based) on, acc as accumulated there
RECURSIVE PoseLoop(_, _, _, _)
PoseLoop(pics, tt, i, acc) ==
    IF i > Len(pics) - 1 THEN pics[Len(pics)].positions
    ELSE LET a    == pics[i]
             b    == pics[i + 1]
             hold == HoldOf(a)
             move == MoveOf(a)
             acc2 == acc + hold
         IN  IF tt >= acc /\ tt <= acc + hold THEN a.positions
             ELSE IF tt >= acc2 /\ tt <= acc2 + move
                  THEN MovePose(a, b, RatClamp(Norm(tt - acc2, move), Rat(0), Rat(1)))
                  ELSE PoseLoop(pics, tt, i + 1, acc2 + move)

getPoseAtSec(sec) ==
    IF ~HasActive \/ Len(ActivePics) = 0 THEN NullPose
    ELSE IF Len(ActivePics) = 1 THEN PoseOf(ActivePics[1].positions)
    ELSE IF picturesDurationSec <= 0 THEN PoseOf(ActivePics[1].positions)
    ELSE PoseOf(PoseLoop(ActivePics, clamp(sec, 0, picturesDurationSec), 1, 0))

\* ResolveWalk without the `if (out[id]) continue`: an earlier picture overwrites
RECURSIVE ResolveWalkOverwrite(_, _, _)
ResolveWalkOverwrite(pics, i, out) ==
    IF i < 1 THEN out
    ELSE LET pos   == pics[i].positions
             fresh == {id \in DOMAIN pos : pos[id].fin}
         IN  ResolveWalkOverwrite(pics, i - 1,
                 [id \in (DOMAIN out) \cup fresh |->
                     IF id \in fresh THEN pos[id] ELSE out[id]])

\* the backward walk of resolvePoseForPicture from 1-based index i, out so far
RECURSIVE ResolveWalk(_, _, _)
ResolveWalk(pics, i, out) ==
    IF i < 1 THEN out
    ELSE LET pos   == pics[i].positions
             fresh == {id \in DOMAIN pos : id \notin DOMAIN out /\ pos[id].fin}
         IN  ResolveWalk(pics, i - 1,
                 [id \in (DOMAIN out) \cup fresh |->
                     IF id \in DOMAIN out THEN out[id] ELSE pos[id]])

\* pictureIndex is the source's 0-based index
resolvePoseForPicture(pics, pictureIndex) ==
    IF pictureIndex < 0 \/ pictureIndex >= Len(pics) THEN EmptyPositions
    ELSE ResolveWalk(pics, pictureIndex + 1, EmptyPositions)

----------------------------------------------------------------------------
(* Route arrows (routeService, pictureService).  Indices are the source's   *)
(* 0-based indices, -1 is "none"; the arrow list is kept as the set of its  *)
(* arrows, at most one per dancer.                                          *)

IsMainAt(pics, j) == pics[j + 1].kind # "move"

findNextIndexOfAnyKind(pics, fromIndex) ==
    IF fromIndex + 1 < Len(pics) THEN fromIndex + 1 ELSE -1

findNextMainIndex(pics, fromIndex) ==
    LET later == {j \in (fromIndex + 1)..(Len(pics) - 1) : IsMainAt(pics, j)}
    IN  IF later = {} THEN -1 ELSE CHOOSE j \in later : \A k \in later : j <= k

findPrevMainIndex(pics, fromIndex) ==
    LET earlier == {j \in 0..(fromIndex - 1) : IsMainAt(pics, j)}
    IN  IF earlier = {} THEN -1 ELSE CHOOSE j \in earlier : \A k \in earlier : j >= k

resolveMainPictureIndex(pics, pictureIndex) ==
    IF pictureIndex < 0 \/ pictureIndex >= Len(pics) THEN -1
    ELSE IF IsMainAt(pics, pictureIndex) THEN pictureIndex
    ELSE findPrevMainIndex(pics, pictureIndex)

\* the loop keeps the last index of the leading run of pictures that have
\* started; 1e-6 s is below the millisecond grid of the model
currentPictureIndexAtTime(pictureCount, timeSec) ==
    IF pictureCount <= 0 THEN -1
    ELSE LET run == {i \in 0..(pictureCount - 1) :
                        \A j \in 0..i : getPictureStartSec(j) <= timeSec}
         IN  IF run = {} THEN 0 ELSE CHOOSE i \in run : \A k \in run : i >= k

findMainPictureAtTime(pics, timeSec) ==
    LET rawIdx == currentPictureIndexAtTime(Len(pics), timeSec)
    IN  IF rawIdx < 0 \/ rawIdx >= Len(pics) THEN -1
        ELSE resolveMainPictureIndex(pics, rawIdx)

computeRouteArrows(fromPose, toPose) ==
    {[dancerId |-> id, fromPos |-> fromPose[id], toPos |-> toPose[id]] :
        id \in {d \in (DOMAIN fromPose) \cap (DOMAIN toPose) :
                   fromPose[d].fin /\ toPose[d].fin}}

\* uiSelectedPictureId 0 is null
computeRoutesForSelection(pics, uiSelectedPictureId, currentTimeSec) ==
    IF Len(pics) < 2 THEN {}
    ELSE
    LET found       == {i \in 0..(Len(pics) - 1) : pics[i + 1].id = uiSelectedPictureId}
        selectedIdx == IF uiSelectedPictureId = 0 \/ found = {} THEN -1
                       ELSE CHOOSE i \in found : \A k \in found : i <= k
        selFrom     == IF selectedIdx >= 0 THEN resolveMainPictureIndex(pics, selectedIdx)
                       ELSE -1
        selTo       == IF selFrom >= 0 THEN findNextMainIndex(pics, selFrom) ELSE -1
        timeFrom    == findMainPictureAtTime(pics, currentTimeSec)
        timeTo      == IF timeFrom >= 0 THEN findNextMainIndex(pics, timeFrom) ELSE -1
    IN  IF selectedIdx >= 0
        THEN IF selFrom < 0 \/ selTo < 0 THEN {}
             ELSE computeRouteArrows(resolvePoseForPicture(pics, selFrom),
                                     resolvePoseForPicture(pics, selTo))
        ELSE IF timeFrom < 0 \/ timeTo < 0 THEN {}
             ELSE computeRouteArrows(resolvePoseForPicture(pics, timeFrom),
                                     resolvePoseForPicture(pics, timeTo))

----------------------------------------------------------------------------
(* Initial state of the two providers *)

NoSource == [live |-> FALSE, loop |-> FALSE, dur |-> 0]

\* TransportProvider: the useState / useRef initial values
TransportInit ==
    /\ t_durationSec = 0
    /\ t_isPlaying = FALSE
    /\ t_currentSec = 0
    /\ offsetSec = 0
    /\ clockSec = 0
    /\ loopEnabled = FALSE
    /\ loopA = None
    /\ loopB = None
    /\ source = NoSource
    /\ pendingStarts = <<>>
    /\ pendingLoads = <<>>
    /\ audioName = 0
    /\ endedQueue = {}

HistInit ==
    /\ lastOp = "init"
    /\ lastArg = 0
    /\ lastOut = 0

----------------------------------------------------------------------------
(* The transport (TransportProvider).  Its functions are written over a     *)
(* record of its state so that a handler can call several in a row.         *)

Tr ==
    [dur |-> t_durationSec, playing |-> t_isPlaying, cur |-> t_currentSec,
     offset |-> offsetSec, clock |-> clockSec,
     le |-> loopEnabled, la |-> loopA, lb |-> loopB,
     src |-> source, starts |-> pendingStarts, ended |-> endedQueue]

SetTransport(T) ==
    /\ Len(T.starts) <= MaxPendingStarts
    /\ t_durationSec' = T.dur
    /\ t_isPlaying' = T.playing
    /\ t_currentSec' = T.cur
    /\ offsetSec' = T.offset
    /\ clockSec' = T.clock
    /\ loopEnabled' = T.le
    /\ loopA' = T.la
    /\ loopB' = T.lb
    /\ source' = T.src
    /\ pendingStarts' = T.starts
    /\ endedQueue' = T.ended

\* le && la != null && lb != null && lb > la
LoopActive(T) == T.le /\ T.la.has /\ T.lb.has /\ T.lb.val > T.la.val

\* src.onended of a source that was created as instance `instanceId`: it runs
\* when the event is dispatched, if stopSource has not removed it (onended) and
\* sourceInstanceIdRef still holds its instance id (current)
onendedRunsAlways(e) == TRUE

onendedRuns(e) == e.onended /\ e.current

\* An 'ended' event whose handler can no longer run changes nothing when it is
\* dispatched; only the others are kept.
Dispatchable(events) == {e \in events : onendedRuns(e)}

\* sourceInstanceIdRef.current++: no stopped source is the current instance
invalidateInstances(T) ==
    [T EXCEPT !.ended = Dispatchable({[e EXCEPT !.current = FALSE] : e \in @})]

\* stopSource: onended is removed, stop() queues the 'ended' event of a source
\* that has not ended yet; `current` tells whether it is the current instance
stopSource(T, current) ==
    [T EXCEPT !.src = NoSource,
              !.ended = IF T.src.live
                        THEN Dispatchable(@ \cup {[current |-> current, onended |-> FALSE]})
                        ELSE @]

computeCurrentPos(T) ==
    IF T.dur = 0 \/ ~T.playing THEN T.offset
    ELSE Max(0, Min(T.dur, T.clock + T.offset))

\* startAt up to `await ctx.resume()`: the call is suspended with its argument
\* and the buffer it captured
startAt(T, sec) ==
    IF T.dur = 0 THEN T
    ELSE [T EXCEPT !.starts = Append(@, [sec |-> sec, dur |-> T.dur])]

\* startAt after the await, for the suspended call e
startAtResumed(T, e) ==
    LET clamped  == Max(0, Min(e.dur, e.sec))
        startPos == IF LoopActive(T) /\ (clamped < T.la.val \/ clamped > T.lb.val)
                    THEN T.la.val ELSE clamped
        T1 == stopSource(invalidateInstances(T), FALSE)
    IN  [T1 EXCEPT !.src = [live |-> TRUE, loop |-> LoopActive(T), dur |-> T.dur],
                   !.offset = startPos,
                   !.clock = 0,
                   !.playing = TRUE]

t_play(T) == IF T.dur = 0 THEN T ELSE startAt(T, computeCurrentPos(T))

t_pause(T) ==
    IF T.dur = 0 THEN T
    ELSE LET pos == computeCurrentPos(T)
         IN  [stopSource(T, TRUE) EXCEPT !.offset = pos, !.playing = FALSE, !.cur = pos]

t_seek(T, sec) ==
    IF T.dur = 0 THEN T
    ELSE LET clamped == Max(0, Min(T.dur, sec))
             T1 == IF LoopActive(T) /\ (clamped < T.la.val \/ clamped > T.lb.val)
                   THEN [T EXCEPT !.le = FALSE] ELSE T
         IN  IF T1.playing THEN startAt(T1, clamped)
             ELSE [T1 EXCEPT !.offset = clamped, !.cur = clamped]

t_clearLoop(T) ==
    LET T1 == [T EXCEPT !.le = FALSE, !.la = None, !.lb = None]
    IN  IF T1.playing THEN startAt(T1, computeCurrentPos(T1)) ELSE T1

t_toggleLoop(T) ==
    LET T1 == [T EXCEPT !.le = ~T.le]
    IN  IF T1.playing THEN startAt(T1, computeCurrentPos(T1)) ELSE T1

t_setLoopAAt(T, sec) ==
    LET s == Max(0, Min(T.dur, sec))
    IN  [T EXCEPT !.la = Some(s),
                  !.lb = IF T.lb.has /\ T.lb.val < s THEN Some(s) ELSE T.lb]

t_setLoopBAt(T, sec) ==
    LET s  == Max(0, Min(T.dur, sec))
        T1 == [T EXCEPT !.lb = Some(s), !.le = TRUE]
    IN  IF T1.playing THEN startAt(T1, computeCurrentPos(T1)) ELSE T1

t_setClipSeeking(T, startSec, endSec, seekToStart) ==
    IF T.dur = 0 THEN T
    ELSE LET a  == Max(0, Min(T.dur, startSec))
             b  == Max(0, Min(T.dur, endSec))
             T1 == [T EXCEPT !.la = Some(Min(a, b)), !.lb = Some(Max(a, b)), !.le = TRUE]
         IN  t_seek(T1, Min(a, b))

t_setClip(T, startSec, endSec, seekToStart) ==
    IF T.dur = 0 THEN T
    ELSE LET a  == Max(0, Min(T.dur, startSec))
             b  == Max(0, Min(T.dur, endSec))
             T1 == [T EXCEPT !.la = Some(Min(a, b)), !.lb = Some(Max(a, b)), !.le = TRUE]
         IN  IF seekToStart THEN t_seek(T1, Min(a, b)) ELSE T1

t_clearClip(T) == t_clearLoop(T)

\* the position the requestAnimationFrame tick publishes
tickPos(T) ==
    LET pos == Max(0, Min(T.dur, T.clock + T.offset))
    IN  IF LoopActive(T)
        THEN LET loopLen == T.lb.val - T.la.val
             IN  IF pos >= T.lb.val \/ pos < T.la.val
                 THEN T.la.val + ((pos - T.la.val) % loopLen)
                 ELSE pos
        ELSE pos

----------------------------------------------------------------------------
(* The choreography store (ChoreoProvider): derived values *)

NoClip == [has |-> FALSE, startSec |-> 0, endSec |-> 0]

normalizeClip(seq) ==
    IF ~seq.musicStartSec.has \/ ~seq.musicEndSec.has THEN NoClip
    ELSE IF ~(seq.musicEndSec.val > seq.musicStartSec.val) THEN NoClip
    ELSE [has |-> TRUE, startSec |-> seq.musicStartSec.val, endSec |-> seq.musicEndSec.val]

getActiveMusicClip == IF ~HasActive THEN NoClip ELSE normalizeClip(ActiveSeq)

durationSec ==
    IF getActiveMusicClip.has
    THEN Max(0, getActiveMusicClip.endSec - getActiveMusicClip.startSec)
    ELSE picturesDurationSec

currentSec ==
    IF ~getActiveMusicClip.has THEN clamp(t_currentSec, 0, durationSec)
    ELSE clamp(t_currentSec - getActiveMusicClip.startSec, 0, durationSec)

SeqIds == {sequences[i].id : i \in 1..Len(sequences)}

\* the ids of the pictures of a sequence list, and of the live one
PictureIdsOf(seqs) ==
    UNION {{seqs[i].pictures[j].id : j \in 1..Len(seqs[i].pictures)} : i \in 1..Len(seqs)}
PictureIds == PictureIdsOf(sequences)

\* a handler that puts a copy ({...p, field: value}) in the place of a live
\* picture, or drops it, leaves the old object to the snapshots that hold it
Unalias(pictureIds) == {pr \in aliased : pr[2] \notin pictureIds}

\* sequences.find(s => s.id === id), as a list of zero or one element
FindSeq(seqs, id) == SelectSeq(seqs, LAMBDA s : s.id = id)

\* the clip start the handlers snap to: clip ? clip.startSec : 0
ClipStartOf(found) ==
    IF Len(found) > 0 /\ normalizeClip(found[1]).has
    THEN normalizeClip(found[1]).startSec ELSE 0

----------------------------------------------------------------------------
(* Operations.  A handler runs to completion in one step.  When it changes  *)
(* a dependency of the clip-sync effect (activeSequenceId, sequences,       *)
(* t.durationSec), React commits the render and runs the effect before any  *)
(* other handler or callback: ClipSyncEffect is then the only enabled step. *)

AudioDurations  == {20000}                   \* decoded lengths of loadable files
ClipInputs      == {<<10000, 15000>>, <<25000, 10000>>}
SeekInputs      == {-1000, 5000, 20000}      \* sequence-relative seek targets
TransportSeeks  == {0, 12000}                \* absolute seek targets (transport bar)
LoopAInputs     == {5000}                    \* loop marks set on the transport bar
LoopBInputs     == {15000}
PictureKinds    == {"main"}
MainPositions   == {MkPositions(1, 0)}
ClockStep       == 8000                      \* granularity of the audio clock

Idle == ~effectPending

Did(op, arg) ==
    /\ lastOp' = op
    /\ lastArg' = arg
    /\ lastOut' = 0

\* prev.map(s => s.id === id ? f(s) : s)
MapSeq(seqs, id, f(_)) ==
    [i \in 1..Len(seqs) |-> IF seqs[i].id = id THEN f(seqs[i]) ELSE seqs[i]]

createSequence ==
    /\ Idle
    /\ nextId <= MaxIds
    /\ sequences' = <<SeqOf(nextId, <<>>)>> \o sequences
    /\ activeSequenceId' = nextId
    /\ nextId' = nextId + 1
    /\ effectPending' = TRUE
    /\ SetTransport(t_seek(t_pause(Tr), 0))
    /\ UNCHANGED <<pendingLoads, audioName, storeVars>>
    /\ Did("createSequence", nextId)

setActiveSequence(id) ==
    /\ Idle
    /\ activeSequenceId' = id
    /\ effectPending' = (id # activeSequenceId)
    /\ SetTransport(t_seek(t_pause(Tr), ClipStartOf(FindSeq(sequences, id))))
    /\ UNCHANGED <<sequences, nextId, pendingLoads, audioName, storeVars>>
    /\ Did("setActiveSequence", id)

deleteSequence(id) ==
    /\ Idle
    /\ LET out == SelectSeq(sequences, LAMBDA s : s.id # id)
       IN  /\ sequences' = out
           /\ activeSequenceId' =
                 IF activeSequenceId = id
                 THEN (IF Len(out) > 0 THEN out[1].id ELSE 0)
                 ELSE activeSequenceId
    /\ effectPending' = TRUE
    /\ SetTransport(t_seek(t_pause(Tr), 0))
    /\ aliased' = Unalias(PictureIdsOf(FindSeq(sequences, id)))
    /\ UNCHANGED <<nextId, pendingLoads, audioName, versions, loadToken, nextVer>>
    /\ Did("deleteSequence", id)

setSequenceMusicClip(sequenceId, startSec, endSec) ==
    /\ Idle
    /\ LET lo == Min(startSec, endSec)
           hi == Max(startSec, endSec)
           bind(q) == [q EXCEPT !.musicStartSec = Some(lo), !.musicEndSec = Some(hi)]
       IN  /\ sequences' = MapSeq(sequences, sequenceId, bind)
           /\ IF activeSequenceId = sequenceId /\ t_durationSec > 0
              THEN SetTransport(t_setClip(Tr, lo, hi, TRUE))
              ELSE SetTransport(Tr)
    /\ effectPending' = TRUE
    /\ UNCHANGED <<activeSequenceId, nextId, pendingLoads, audioName, storeVars>>
    /\ Did("setSequenceMusicClip", sequenceId)

clearSequenceMusicClip(sequenceId) ==
    /\ Idle
    /\ LET unbind(q) == [q EXCEPT !.musicStartSec = None, !.musicEndSec = None]
       IN  sequences' = MapSeq(sequences, sequenceId, unbind)
    /\ IF activeSequenceId = sequenceId
       THEN SetTransport(t_clearClip(Tr))
       ELSE SetTransport(Tr)
    /\ effectPending' = TRUE
    /\ UNCHANGED <<activeSequenceId, nextId, pendingLoads, audioName, storeVars>>
    /\ Did("clearSequenceMusicClip", sequenceId)

\* the picture addPicture builds: holdSec 1.0 for main, 0 for move; moveSec 2.0
NewPicture(id, kind, positions) ==
    Picture(id, kind, positions, IF kind = "main" THEN 1000 ELSE 0, 2000)

addPicture(positions, kind) ==
    /\ Idle
    /\ IF Len(sequences) = 0
       THEN /\ nextId + 1 <= MaxIds
            /\ sequences' = <<SeqOf(nextId, <<NewPicture(nextId + 1, kind, positions)>>)>>
            /\ activeSequenceId' = nextId
            /\ nextId' = nextId + 2
       ELSE LET targetId == IF activeSequenceId # 0 THEN activeSequenceId
                            ELSE sequences[1].id
                found    == {i \in 1..Len(sequences) : sequences[i].id = targetId}
                idx      == IF found = {} THEN 1 ELSE CHOOSE i \in found : TRUE
            IN  /\ nextId <= MaxIds
                /\ sequences' = [sequences EXCEPT ![idx].pictures =
                                    Append(@, NewPicture(nextId, kind, positions))]
                /\ activeSequenceId' = activeSequenceId
                /\ nextId' = nextId + 1
    /\ effectPending' = TRUE
    /\ UNCHANGED <<transportVars, storeVars>>
    /\ Did("addPicture", 0)

PlayRefusedWithoutPictureCount ==
    \/ ~HasActive
    \/ durationSec <= 0
    \/ (getActiveMusicClip.has /\ ~(t_durationSec > 0))

\* the conditions under which the choreo play() returns without calling t.play()
PlayRefused ==
    \/ ~HasActive
    \/ Len(ActivePics) < 2
    \/ durationSec <= 0
    \/ (getActiveMusicClip.has /\ ~(t_durationSec > 0))

play ==
    /\ Idle
    /\ IF PlayRefused THEN SetTransport(Tr) ELSE SetTransport(t_play(Tr))
    /\ UNCHANGED <<choreoVars, pendingLoads, audioName>>
    /\ Did("play", 0)

pause ==
    /\ Idle
    /\ SetTransport(t_pause(Tr))
    /\ UNCHANGED <<choreoVars, pendingLoads, audioName>>
    /\ Did("pause", 0)

SeekTargetRelative(sec) ==
    LET d == durationSec
    IN  IF d <= 0 THEN 0 ELSE clamp(sec, 0, d)

\* the absolute time the choreo seek(sec) forwards to the transport
SeekTarget(sec) ==
    LET d   == durationSec
        rel == IF d <= 0 THEN 0 ELSE clamp(sec, 0, d)
    IN  IF getActiveMusicClip.has THEN getActiveMusicClip.startSec + rel ELSE rel

seek(sec) ==
    /\ Idle
    /\ SetTransport(t_seek(Tr, SeekTarget(sec)))
    /\ UNCHANGED <<choreoVars, pendingLoads, audioName>>
    /\ Did("seek", sec)

\* the effect on [activeSequenceId, sequences, t.durationSec]
ClipSyncEffect ==
    /\ effectPending
    /\ effectPending' = FALSE
    /\ IF ~HasActive THEN SetTransport(t_clearClip(Tr))
       ELSE IF ~normalizeClip(ActiveSeq).has THEN SetTransport(t_clearClip(Tr))
       ELSE IF ~(t_durationSec > 0) THEN SetTransport(Tr)
       ELSE SetTransport(t_setClip(Tr, normalizeClip(ActiveSeq).startSec,
                                   normalizeClip(ActiveSeq).endSec, FALSE))
    /\ UNCHANGED <<sequences, activeSequenceId, nextId, pendingLoads, audioName,
                   storeVars, histVars>>

(* Transport functions the transport bar and the music panel call directly *)

TransportCall(op, arg, T) ==
    /\ Idle
    /\ SetTransport(T)
    /\ UNCHANGED <<choreoVars, pendingLoads, audioName>>
    /\ Did(op, arg)

TransportPlay      == TransportCall("t.play", 0, t_play(Tr))
TransportPause     == TransportCall("t.pause", 0, t_pause(Tr))
TransportSeek(sec) == TransportCall("t.seek", sec, t_seek(Tr, sec))
SetLoopAAt(sec)    == TransportCall("t.setLoopAAt", sec, t_setLoopAAt(Tr, sec))
SetLoopBAt(sec)    == TransportCall("t.setLoopBAt", sec, t_setLoopBAt(Tr, sec))
ToggleLoop         == TransportCall("t.toggleLoop", 0, t_toggleLoop(Tr))
ClearLoop          == TransportCall("t.clearLoop", 0, t_clearLoop(Tr))

\* loadAudioFile up to its first await
loadAudioFileWithin(dur, maxPending) ==
    /\ Idle
    /\ Len(pendingLoads) < maxPending
    /\ pendingLoads' = Append(pendingLoads, dur)
    /\ audioName' = dur
    /\ SetTransport([invalidateInstances(stopSource(Tr, TRUE))
                         EXCEPT !.playing = FALSE,
                                !.le = FALSE, !.la = None, !.lb = None,
                                !.cur = 0, !.offset = 0])
    /\ UNCHANGED choreoVars
    /\ Did("t.loadAudioFile", dur)

loadAudioFile(dur) == loadAudioFileWithin(dur, MaxPendingLoads)

\* loadAudioFile after decodeAudioData: bufferRef and durationSec are set
LoadComplete ==
    /\ Idle
    /\ \E i \in 1..Len(pendingLoads) :
          /\ t_durationSec' = pendingLoads[i]
          /\ effectPending' = (pendingLoads[i] # t_durationSec)
          /\ pendingLoads' = SubSeq(pendingLoads, 1, i - 1)
                               \o SubSeq(pendingLoads, i + 1, Len(pendingLoads))
          /\ Did("loadComplete", pendingLoads[i])
    /\ UNCHANGED <<sequences, activeSequenceId, nextId, storeVars, t_isPlaying, t_currentSec,
                   offsetSec, clockSec, loopEnabled, loopA, loopB, source, pendingStarts,
                   audioName, endedQueue>>

\* a suspended startAt() continues after `await ctx.resume()`
ResumeComplete ==
    /\ Idle
    /\ Len(pendingStarts) > 0
    /\ SetTransport(startAtResumed([Tr EXCEPT !.starts = Tail(@)], pendingStarts[1]))
    /\ UNCHANGED <<choreoVars, pendingLoads, audioName>>
    /\ Did("startAt", pendingStarts[1].sec)

\* the audio clock advances while a source plays
AdvanceClock ==
    /\ Idle
    /\ t_isPlaying
    /\ clockSec + ClockStep <= MaxClockSteps * ClockStep
    /\ clockSec' = clockSec + ClockStep
    /\ UNCHANGED <<choreoVars, t_durationSec, t_isPlaying, t_currentSec, offsetSec,
                   loopEnabled, loopA, loopB, source, pendingStarts, pendingLoads,
                   audioName, endedQueue>>
    /\ Did("clock", 0)

\* the requestAnimationFrame tick of startRaf
Tick ==
    /\ Idle
    /\ t_isPlaying
    /\ t_currentSec' = tickPos(Tr)
    /\ UNCHANGED <<choreoVars, t_durationSec, t_isPlaying, offsetSec, clockSec,
                   loopEnabled, loopA, loopB, source, pendingStarts, pendingLoads,
                   audioName, endedQueue>>
    /\ Did("tick", 0)

\* The 'ended' events waiting to be dispatched: those of the stopped sources,
\* and that of the current source when it is not looping and has reached the
\* end of its buffer
EndedEvents ==
    endedQueue \cup (IF source.live /\ ~source.loop /\ offsetSec + clockSec >= source.dur
                     THEN {[current |-> TRUE, onended |-> TRUE]} ELSE {})

\* an 'ended' event is dispatched: src.onended runs if it is still set
SourceEnded ==
    /\ Idle
    /\ \E e \in EndedEvents :
          /\ t_isPlaying' = IF onendedRuns(e) THEN FALSE ELSE t_isPlaying
          /\ endedQueue' = endedQueue \ {e}
          /\ source' = IF e \in endedQueue THEN source ELSE [source EXCEPT !.live = FALSE]
    /\ UNCHANGED <<choreoVars, t_durationSec, t_currentSec, offsetSec, clockSec,
                   loopEnabled, loopA, loopB, pendingStarts, pendingLoads, audioName>>
    /\ Did("onended", 0)

----------------------------------------------------------------------------
(* Picture editing: addPictureAtTime, deletePicture and the duration and    *)
(* kind setters.  A seconds argument is a number: finite or NaN.            *)

MaxEditIds == 4        \* identifiers uid() hands out to addPictureAtTime
MinMoveMs  == 200      \* const minMove = 0.2
MaxHoldMs  == 60000    \* clamp(seconds, 0, 60)
MinMoveDurationMs == 100   \* clamp(seconds, 0.1, 60)

\* clamp = Math.max(lo, Math.min(hi, v)) : NaN in, NaN out
clampSeconds(v, lo, hi) == IF v = NaNSec THEN NaNSec ELSE Max(lo, Min(hi, v))

\* prev.map(seq => ({...seq, pictures: seq.pictures.map(p => p.id === id ? f(p) : p)}))
\* for the three setters, f being the assignment of one field
SetPictureField(seqs, pictureId, field, value) ==
    [i \in 1..Len(seqs) |->
        [seqs[i] EXCEPT !.pictures =
            [j \in 1..Len(seqs[i].pictures) |->
                IF seqs[i].pictures[j].id = pictureId
                THEN [seqs[i].pictures[j] EXCEPT ![field] = value]
                ELSE seqs[i].pictures[j]]]]

\* the loop of addPictureAtTime: the first picture whose segment ends after
\* targetSec, the last picture when there is none
InsertAfter(pics, targetSec) ==
    LET hits == {i \in 1..Len(pics) : targetSec < SumSegments(pics, i)}
    IN  IF hits = {} THEN Len(pics) ELSE CHOOSE i \in hits : \A j \in hits : i <= j

\* `acc` when the loop ends: the start of the segment found, the end of the
\* last segment when the loop ran to its end
AccAtExit(pics, targetSec) ==
    IF \E i \in 1..Len(pics) : targetSec < SumSegments(pics, i)
    THEN SumSegments(pics, InsertAfter(pics, targetSec) - 1)
    ELSE SumSegments(pics, Len(pics))

\* the best-effort adjustment of the picture before the new one
AdjustPrev(prevPic, desiredDelta) ==
    LET oldHold == HoldOf(prevPic)
        oldMove == Max(MinMoveMs, IF prevPic.moveSec = 0 \/ prevPic.moveSec = NaNSec
                                  THEN DefaultMoveSec ELSE prevPic.moveSec)
        newHold == Min(oldHold, Max(0, desiredDelta - MinMoveMs))
        newMove == Max(MinMoveMs, desiredDelta - newHold)
    IN  IF desiredDelta > 0 /\ desiredDelta < oldHold + oldMove
        THEN [prevPic EXCEPT !.holdSec = newHold, !.moveSec = newMove]
        ELSE prevPic

\* seq.pictures after the insertion of pic at targetSec
InsertAtTime(pics, pic, targetSec) ==
    IF Len(pics) = 0 THEN <<pic>>
    ELSE LET a     == InsertAfter(pics, targetSec)
             delta == Max(0, targetSec - AccAtExit(pics, targetSec))
         IN  SubSeq(pics, 1, a - 1) \o <<AdjustPrev(pics[a], delta), pic>>
                \o SubSeq(pics, a + 1, Len(pics))

\* prevPic.holdSec = newHold; prevPic.moveSec = newMove assign to the object
\* itself: whoever holds that object sees the new durations
WriteThrough(vs, seqsAfter) ==
    LET livePicture(id) ==
            CHOOSE q \in UNION {{seqsAfter[i].pictures[j] :
                                   j \in 1..Len(seqsAfter[i].pictures)} :
                                i \in 1..Len(seqsAfter)} : q.id = id
        seen(verId, pic) ==
            IF <<verId, pic.id>> \in aliased /\ pic.id \in PictureIdsOf(seqsAfter)
            THEN livePicture(pic.id) ELSE pic
        seenSeq(verId, q) ==
            [q EXCEPT !.pictures = [j \in 1..Len(q.pictures) |-> seen(verId, q.pictures[j])]]
    IN  [k \in 1..Len(vs) |->
            [vs[k] EXCEPT !.snapshot.sequences =
                [i \in 1..Len(vs[k].snapshot.sequences) |->
                    seenSeq(vs[k].id, vs[k].snapshot.sequences[i])]]]

addPictureAtTime(positions, atSec, kind) ==
    /\ Idle
    /\ LET targetSec == Max(0, IF atSec = NaNSec THEN 0 ELSE atSec)
           created   == Len(sequences) = 0
           base      == IF created THEN <<SeqOf(nextId, <<>>)>> ELSE sequences
           picId     == IF created THEN nextId + 1 ELSE nextId
           activeId  == IF activeSequenceId # 0 THEN activeSequenceId ELSE base[1].id
           found     == {i \in 1..Len(base) : base[i].id = activeId}
       IN  IF found = {}
           THEN /\ sequences' = base
                /\ nextId' = nextId
           ELSE LET sIdx == CHOOSE i \in found : \A j \in found : i <= j
                IN  /\ picId <= MaxEditIds
                    /\ sequences' = [base EXCEPT ![sIdx].pictures =
                          InsertAtTime(@, NewPicture(picId, kind, positions), targetSec)]
                    /\ nextId' = picId + 1
    /\ versions' = WriteThrough(versions, sequences')
    /\ effectPending' = TRUE
    /\ UNCHANGED <<activeSequenceId, transportVars, loadToken, nextVer, aliased>>
    /\ Did("addPictureAtTime", atSec)

deletePicture(pictureId) ==
    /\ Idle
    /\ sequences' = [i \in 1..Len(sequences) |->
                        [sequences[i] EXCEPT !.pictures =
                            SelectSeq(@, LAMBDA p : p.id # pictureId)]]
    /\ effectPending' = TRUE
    /\ SetTransport(t_seek(t_pause(Tr),
                           IF getActiveMusicClip.has THEN getActiveMusicClip.startSec
                           ELSE 0))
    /\ aliased' = Unalias({pictureId})
    /\ UNCHANGED <<activeSequenceId, nextId, pendingLoads, audioName, versions, loadToken, nextVer>>
    /\ Did("deletePicture", pictureId)

setHoldDuration(pictureId, seconds) ==
    /\ Idle
    /\ sequences' = SetPictureField(sequences, pictureId, "holdSec",
                                    clampSeconds(seconds, 0, MaxHoldMs))
    /\ effectPending' = TRUE
    /\ aliased' = Unalias({pictureId})
    /\ UNCHANGED <<activeSequenceId, nextId, transportVars, versions, loadToken, nextVer>>
    /\ Did("setHoldDuration", pictureId)

setMoveDuration(pictureId, seconds) ==
    /\ Idle
    /\ sequences' = SetPictureField(sequences, pictureId, "moveSec",
                                    clampSeconds(seconds, MinMoveDurationMs, MaxHoldMs))
    /\ effectPending' = TRUE
    /\ aliased' = Unalias({pictureId})
    /\ UNCHANGED <<activeSequenceId, nextId, transportVars, versions, loadToken, nextVer>>
    /\ Did("setMoveDuration", pictureId)

setPictureKind(pictureId, kind) ==
    /\ Idle
    /\ sequences' = SetPictureField(sequences, pictureId, "kind", kind)
    /\ effectPending' = TRUE
    /\ aliased' = Unalias({pictureId})
    /\ UNCHANGED <<activeSequenceId, nextId, transportVars, versions, loadToken, nextVer>>
    /\ Did("setPictureKind", pictureId)

----------------------------------------------------------------------------
(* Versions and export / import.  structuredClone copies plain data, so a   *)
(* clone is the same value; what it hands to normalizeSequence is data      *)
(* whose fields may be missing or non-finite, written here as optional      *)
(* fields.  Names and createdAt stamps are not modelled, and every          *)
(* sequence and picture of a payload carries an id.                         *)

VersionLimit  == 50     \* [v, ...prev].slice(0, 50)
DefaultHoldMs == 1000   \* holdSec default of a main picture (1.0)

\* a number as an optional field: a NaN is not finite, and normalizeSequence
\* treats it as it treats a missing field
Finite(x) == IF x = NaNSec THEN None ELSE Some(x)

\* a live picture / sequence as plain data
PictureData(p) ==
    [id |-> p.id, kind |-> p.kind, positions |-> p.positions,
     holdSec |-> Finite(p.holdSec), moveSec |-> Finite(p.moveSec),
     toNextSec |-> Finite(p.moveSec)]

SequenceData(q) ==
    [id |-> q.id,
     pictures |-> [i \in 1..Len(q.pictures) |-> PictureData(q.pictures[i])],
     musicStartSec |-> q.musicStartSec, musicEndSec |-> q.musicEndSec]

\* the picture mapper of normalizeSequence
normalizePicture(p) ==
    LET kind == IF p.kind = "move" THEN "move" ELSE "main"
    IN  Picture(p.id, kind, p.positions,
                IF p.holdSec.has THEN p.holdSec.val
                ELSE IF kind = "main" THEN DefaultHoldMs ELSE 0,
                IF p.moveSec.has THEN p.moveSec.val
                ELSE IF p.toNextSec.has THEN p.toNextSec.val ELSE DefaultMoveSec)

normalizeSequence(raw) ==
    [id |-> raw.id,
     pictures |-> [i \in 1..Len(raw.pictures) |-> normalizePicture(raw.pictures[i])],
     musicStartSec |-> IF raw.musicStartSec.has THEN raw.musicStartSec ELSE None,
     musicEndSec |-> IF raw.musicEndSec.has THEN raw.musicEndSec ELSE None]

NormalizeAll(raws) == [i \in 1..Len(raws) |-> normalizeSequence(raws[i])]

PrependUntruncated(v, prev) == <<v>> \o prev

\* [v, ...prev].slice(0, 50)
Prepend(v, prev) ==
    LET all == <<v>> \o prev
    IN  IF Len(all) > VersionLimit THEN SubSeq(all, 1, VersionLimit) ELSE all

SnapshotSharesPictures(verId) == {<<verId, id>> : id \in PictureIds}

\* structuredClone(sequences): the objects of the snapshot that are objects of
\* the live state, none
structuredCloneShares(verId) == {}

saveVersion ==
    /\ Idle
    /\ nextVer <= MaxVersionIds
    /\ versions' = Prepend([id |-> nextVer,
                            snapshot |-> [sequences |-> sequences,
                                          activeSequenceId |-> activeSequenceId]],
                           versions)
    /\ nextVer' = nextVer + 1
    /\ aliased' = aliased \cup structuredCloneShares(nextVer)
    /\ UNCHANGED <<sequences, activeSequenceId, nextId, effectPending, loadToken,
                   transportVars>>
    /\ Did("saveVersion", nextVer)

InstallKeepingLoadToken(seqs, nextActive, snapSeq) ==
    /\ sequences' = seqs
    /\ activeSequenceId' = nextActive
    /\ effectPending' = TRUE
    /\ SetTransport(t_seek(t_pause(Tr), ClipStartOf(snapSeq)))
    /\ aliased' = {}
    /\ UNCHANGED <<loadToken, nextId, nextVer, pendingLoads, audioName>>

\* the tail shared by restoreVersion and importExport: install the sequences,
\* pause, snap to the clip start of the sequence `snapSeq`, bump loadToken
Install(seqs, nextActive, snapSeq) ==
    /\ sequences' = seqs
    /\ activeSequenceId' = nextActive
    /\ effectPending' = TRUE
    /\ SetTransport(t_seek(t_pause(Tr), ClipStartOf(snapSeq)))
    /\ loadToken' = loadToken + 1
    /\ aliased' = {}
    /\ UNCHANGED <<nextId, nextVer, pendingLoads, audioName>>

restoreVersion(versionId) ==
    /\ Idle
    /\ loadToken < MaxLoadToken
    /\ LET found == SelectSeq(versions, LAMBDA x : x.id = versionId)
       IN  IF Len(found) = 0
           THEN UNCHANGED <<choreoVars, transportVars>>
           ELSE LET snap == found[1].snapshot
                    norm == NormalizeAll([i \in 1..Len(snap.sequences) |->
                                            SequenceData(snap.sequences[i])])
                    first == IF Len(norm) > 0 THEN <<norm[1]>> ELSE <<>>
                IN  /\ Install(norm,
                               IF snap.activeSequenceId # 0 THEN snap.activeSequenceId
                               ELSE IF Len(norm) > 0 THEN norm[1].id ELSE 0,
                               IF snap.activeSequenceId # 0
                               THEN FindSeq(norm, snap.activeSequenceId) ELSE first)
                    /\ UNCHANGED versions
    /\ Did("restoreVersion", versionId)

deleteVersion(versionId) ==
    /\ Idle
    /\ versions' = SelectSeq(versions, LAMBDA v : v.id # versionId)
    /\ aliased' = {pr \in aliased : pr[1] # versionId}
    /\ UNCHANGED <<sequences, activeSequenceId, nextId, effectPending, loadToken, nextVer,
                   transportVars>>
    /\ Did("deleteVersion", versionId)

clearVersions ==
    /\ Idle
    /\ versions' = <<>>
    /\ aliased' = {}
    /\ UNCHANGED <<sequences, activeSequenceId, nextId, effectPending, loadToken, nextVer,
                   transportVars>>
    /\ Did("clearVersions", 0)

\* the object buildExport returns; tag is the label lastArg records for a payload
buildExport(includeVersions) ==
    [tag |-> 1, null |-> FALSE, schema |-> "choreo-export-v2",
     seqsIsArray |-> TRUE,
     sequences |-> [i \in 1..Len(sequences) |-> SequenceData(sequences[i])],
     activeSequenceId |-> IF activeSequenceId = 0 THEN None ELSE Some(activeSequenceId),
     versionsIsArray |-> includeVersions,
     versions |-> IF includeVersions THEN versions ELSE <<>>]

PayloadRejectedBySchemaOnly(data) ==
    data.null \/ data.schema \notin {"choreo-export-v1", "choreo-export-v2"}

\* the two early returns of importExport
PayloadRejected(data) ==
    \/ data.null
    \/ data.schema \notin {"choreo-export-v1", "choreo-export-v2"}
    \/ ~data.seqsIsArray

importExport(data) ==
    /\ Idle
    /\ loadToken < MaxLoadToken
    /\ IF PayloadRejected(data)
       THEN UNCHANGED <<choreoVars, transportVars>>
       ELSE LET seqs == NormalizeAll(data.sequences)
                nextActive == IF data.activeSequenceId.has THEN data.activeSequenceId.val
                              ELSE IF Len(seqs) > 0 THEN seqs[1].id ELSE 0
            IN  /\ Install(seqs, nextActive,
                           IF nextActive # 0 THEN FindSeq(seqs, nextActive) ELSE <<>>)
                /\ versions' = IF data.versionsIsArray THEN data.versions ELSE versions
    /\ Did("importExport", data.tag)

Init ==
    /\ sequences = <<>>
    /\ activeSequenceId = 0
    /\ nextId = 1
    /\ effectPending = FALSE
    /\ versions = <<>>
    /\ loadToken = 0
    /\ nextVer = 1
    /\ aliased = {}
    /\ TransportInit
    /\ HistInit

Next ==
    \/ createSequence
    \/ \E id \in SeqIds : setActiveSequence(id)
    \/ \E id \in SeqIds : deleteSequence(id)
    \/ \E id \in SeqIds, c \in ClipInputs : setSequenceMusicClip(id, c[1], c[2])
    \/ \E id \in SeqIds : clearSequenceMusicClip(id)
    \/ \E ps \in MainPositions, k \in PictureKinds : addPicture(ps, k)
    \/ play
    \/ pause
    \/ \E sec \in SeekInputs : seek(sec)
    \/ ClipSyncEffect
    \/ \E sec \in LoopAInputs : SetLoopAAt(sec)
    \/ \E sec \in LoopBInputs : SetLoopBAt(sec)
    \/ ToggleLoop
    \/ ClearLoop
    \/ \E dur \in AudioDurations : loadAudioFile(dur)
    \/ LoadComplete
    \/ ResumeComplete

Spec == Init /\ [][Next]_vars

\* the transport on its own, driven from the transport bar, with its clock
TransportNext ==
    \/ TransportPlay
    \/ TransportPause
    \/ \E sec \in TransportSeeks : TransportSeek(sec)
    \/ \E sec \in LoopAInputs : SetLoopAAt(sec)
    \/ \E sec \in LoopBInputs : SetLoopBAt(sec)
    \/ ToggleLoop
    \/ ClearLoop
    \/ \E dur \in AudioDurations : loadAudioFile(dur)
    \/ LoadComplete
    \/ ResumeComplete
    \/ AdvanceClock
    \/ Tick
    \/ SourceEnded
    \/ ClipSyncEffect

SpecTransport == Init /\ [][TransportNext]_vars

----------------------------------------------------------------------------
(* The project store on its own: sequences, clips, versions, export and     *)
(* import, with no audio loaded; the sequences come from addPicture and    *)
(* from imported files (SpecStore)                                          *)

StoreClipInputs == {<<10000, 25000>>, <<10000, 10000>>}

NullPayload == [buildExport(FALSE) EXCEPT !.tag = 2, !.null = TRUE]
WrongSchemaPayload == [buildExport(TRUE) EXCEPT !.tag = 3, !.schema = "choreo-export-v3"]
NoSequencesPayload == [buildExport(TRUE) EXCEPT !.tag = 4, !.seqsIsArray = FALSE]

\* a version-1 file: a sequence of one picture with the legacy fields only,
\* and an empty sequence
LegacyPayload ==
    [tag |-> 5, null |-> FALSE, schema |-> "choreo-export-v1", seqsIsArray |-> TRUE,
     sequences |-> << [id |-> 101,
                       pictures |-> << [id |-> 102, kind |-> "absent",
                                        positions |-> MkPositions(1, 0),
                                        holdSec |-> None, moveSec |-> None,
                                        toNextSec |-> Some(3000)] >>,
                       musicStartSec |-> None, musicEndSec |-> None],
                      [id |-> 103, pictures |-> <<>>,
                       musicStartSec |-> None, musicEndSec |-> None] >>,
     activeSequenceId |-> None, versionsIsArray |-> FALSE, versions |-> <<>>]

\* a version-2 file whose sequence carries clip bounds in the wrong order
InvertedClipPayload ==
    [tag |-> 6, null |-> FALSE, schema |-> "choreo-export-v2", seqsIsArray |-> TRUE,
     sequences |-> << [id |-> 101, pictures |-> <<>>,
                       musicStartSec |-> Some(25000), musicEndSec |-> Some(10000)] >>,
     activeSequenceId |-> Some(101), versionsIsArray |-> FALSE, versions |-> <<>>]

ImportPayloads ==
    {buildExport(TRUE), NullPayload, WrongSchemaPayload, NoSequencesPayload,
     LegacyPayload, InvertedClipPayload}

VersionIds == {versions[i].id : i \in 1..Len(versions)}
UnknownId  == MaxVersionIds + 1

\* buildExport(true) called and its result dropped
CallBuildExport ==
    /\ Idle
    /\ UNCHANGED <<choreoVars, transportVars>>
    /\ Did("buildExport", 1)

StoreNext ==
    \/ \E ps \in MainPositions, k \in PictureKinds : addPicture(ps, k)
    \/ \E id \in SeqIds, c \in StoreClipInputs : setSequenceMusicClip(id, c[1], c[2])
    \/ (nextVer <= MaxSnapshots /\ saveVersion)
    \/ \E id \in VersionIds \cup {UnknownId} : restoreVersion(id)
    \/ \E id \in VersionIds : deleteVersion(id)
    \/ clearVersions
    \/ \E data \in ImportPayloads : importExport(data)
    \/ CallBuildExport
    \/ \E d \in AudioDurations : loadAudioFile(d)
    \/ LoadComplete
    \/ ClipSyncEffect

SpecStore == Init /\ [][StoreNext]_vars

----------------------------------------------------------------------------
(* The version history of an empty project (SpecVersions): versions are     *)
(* saved, restored, and deleted at either end of the list                   *)

\* the oldest version, and the second newest of a full list
DeletableVersionIds ==
    IF Len(versions) = 0 THEN {}
    ELSE {versions[Len(versions)].id}
         \cup (IF Len(versions) = VersionLimit THEN {versions[2].id} ELSE {})

RestorableVersionIds ==
    IF Len(versions) = 0 THEN {} ELSE {versions[1].id}

VersionsNext ==
    \/ saveVersion
    \/ \E id \in RestorableVersionIds \cup {UnknownId} : restoreVersion(id)
    \/ \E id \in DeletableVersionIds : deleteVersion(id)
    \/ clearVersions
    \/ ClipSyncEffect

SpecVersions == Init /\ [][VersionsNext]_vars

----------------------------------------------------------------------------
(* Picture editing without audio (SpecEdit)                                 *)

AtSecInputs   == {500, 7000}
HoldInputs    == {70000, NaNSec}
MoveInputs    == {50}
EditKinds     == {"move"}

EditNext ==
    \/ createSequence
    \/ \E ps \in MainPositions, k \in PictureKinds : addPicture(ps, k)
    \/ \E ps \in MainPositions, at \in AtSecInputs, k \in PictureKinds :
          addPictureAtTime(ps, at, k)
    \/ \E id \in PictureIds, sec \in HoldInputs : setHoldDuration(id, sec)
    \/ \E id \in PictureIds, sec \in MoveInputs : setMoveDuration(id, sec)
    \/ \E id \in PictureIds, k \in EditKinds : setPictureKind(id, k)
    \/ \E id \in PictureIds : deletePicture(id)
    \/ ClipSyncEffect

SpecEdit == Init /\ [][EditNext]_vars

----------------------------------------------------------------------------
(* Deleting sequences and pictures of a project with music (SpecDelete)     *)

DeleteNext ==
    \/ createSequence
    \/ \E ps \in MainPositions, k \in PictureKinds : addPicture(ps, k)
    \/ \E id \in SeqIds, c \in ClipInputs : setSequenceMusicClip(id, c[1], c[2])
    \/ \E id \in SeqIds : setActiveSequence(id)
    \/ \E id \in SeqIds : deleteSequence(id)
    \/ \E id \in PictureIds : deletePicture(id)
    \/ \E d \in AudioDurations : loadAudioFile(d)
    \/ LoadComplete
    \/ ClipSyncEffect

SpecDelete == Init /\ [][DeleteNext]_vars

----------------------------------------------------------------------------
(* Exporting a project and importing the export (SpecExport)                *)

ExportNext ==
    \/ \E ps \in MainPositions, k \in PictureKinds : addPicture(ps, k)
    \/ \E ps \in MainPositions, at \in AtSecInputs, k \in PictureKinds :
          addPictureAtTime(ps, at, k)
    \/ \E id \in PictureIds, k \in EditKinds : setPictureKind(id, k)
    \/ \E id \in SeqIds, c \in StoreClipInputs : setSequenceMusicClip(id, c[1], c[2])
    \/ (nextVer <= MaxSnapshots /\ saveVersion)
    \/ CallBuildExport
    \/ importExport(buildExport(TRUE))
    \/ ClipSyncEffect

SpecExport == Init /\ [][ExportNext]_vars

----------------------------------------------------------------------------
(* Saved versions under later edits of the live project (SpecSnapshots)     *)

SnapshotNext ==
    \/ \E ps \in MainPositions, k \in PictureKinds : addPicture(ps, k)
    \/ \E ps \in MainPositions, k \in PictureKinds : addPictureAtTime(ps, 500, k)
    \/ \E id \in PictureIds, sec \in MoveInputs : setMoveDuration(id, sec)
    \/ \E id \in PictureIds : deletePicture(id)
    \/ \E id \in SeqIds : setSequenceMusicClip(id, 10000, 25000)
    \/ \E id \in SeqIds : clearSequenceMusicClip(id)
    \/ \E id \in SeqIds : deleteSequence(id)
    \/ (nextVer <= MaxSnapshots /\ saveVersion)
    \/ \E id \in VersionIds : restoreVersion(id)
    \/ ClipSyncEffect

SpecSnapshots == Init /\ [][SnapshotNext]_vars

----------------------------------------------------------------------------
(* Pure-function specifications: getPoseAtSec (SpecPose),                   *)
(* resolvePoseForPicture (SpecResolve) and the timeline sums (SpecTime),    *)
(* each applied to an active sequence whose pictures are drawn from bounded *)
(* sets (a list such as importExport or restoreVersion can install).        *)

PosePositions    == {MkPositions(c1, c2) : c1 \in 0..2, c2 \in 0..1}
ResolvePositions == {MkPositions(c1, c2) : c1 \in 0..2, c2 \in 0..2}
PoseDurations    == {<<1000, 2000>>, <<0, 2000>>}
PoseTimes        == {-500, 0, 500, 1000, 2000, 3000, 4000, 4500, 5000, 6000, 9000}

TimeDurations == {<<h, m>> : h \in {-1000, 0, 1000}, m \in {-2000, 0, 100, 2000}}

\* all picture lists of length 0..MaxPics over the given positions and durations
PictureLists(posSet, durSet) ==
    UNION {{[i \in 1..n |-> Picture(i, "main", ps[i], ds[i][1], ds[i][2])] :
               ps \in [1..n -> posSet], ds \in [1..n -> durSet]} : n \in 0..MaxPics}

PureInit(lists) ==
    /\ \E pics \in lists : sequences = <<SeqOf(1, pics)>>
    /\ activeSequenceId = 1
    /\ nextId = 2
    /\ effectPending = FALSE
    /\ versions = <<>>
    /\ loadToken = 0
    /\ nextVer = 1
    /\ aliased = {}
    /\ TransportInit
    /\ HistInit

\* picture lists of both kinds for the route service
RoutePositions == {MkPositions(0, 0), MkPositions(1, 0), MkPositions(2, 0)}
RouteLists ==
    UNION {{[i \in 1..n |-> Picture(i, ks[i], ps[i],
                                    IF ks[i] = "main" THEN 1000 ELSE 0, 2000)] :
               ps \in [1..n -> RoutePositions], ks \in [1..n -> {"main", "move"}]} :
           n \in 0..MaxPics}
RouteTimes == {0, 2999, 3000, 5000, 20000}

RouteInit   == PureInit(RouteLists)
PoseInit    == PureInit(PictureLists(PosePositions, PoseDurations))
ResolveInit == PureInit(PictureLists(ResolvePositions, {<<1000, 2000>>}))
TimeInit == PureInit(PictureLists({EmptyPositions}, TimeDurations))

\* The calls below are pure: a second call from a state reaches nothing new,
\* so each behaviour applies one call to the installed picture list.
Returned(op, arg, out) ==
    /\ lastOp = "init"
    /\ lastOp' = op
    /\ lastArg' = arg
    /\ lastOut' = out
    /\ UNCHANGED <<choreoVars, transportVars>>

CallGetPoseAtSec ==
    \E sec \in PoseTimes : Returned("getPoseAtSec", sec, getPoseAtSec(sec))

CallResolvePose ==
    \E i \in -1..MaxPics :
        Returned("resolvePoseForPicture", i, resolvePoseForPicture(ActivePics, i))

CallPicturesDuration ==
    Returned("picturesDurationSec", 0, picturesDurationSec)

CallGetPictureStartSec ==
    \E i \in -1..(MaxPics + 1) :
        Returned("getPictureStartSec", i, getPictureStartSec(i))

CallComputeRoutes ==
    \E sel \in 0..MaxPics, sec \in RouteTimes :
        Returned("computeRoutesForSelection", <<sel, sec>>,
                 computeRoutesForSelection(ActivePics, sel, sec))

RouteNext   == CallComputeRoutes
PoseNext    == CallGetPoseAtSec
ResolveNext == CallResolvePose
TimeNext    == CallPicturesDuration \/ CallGetPictureStartSec

SpecRoutes  == RouteInit /\ [][RouteNext]_vars
SpecPose    == PoseInit /\ [][PoseNext]_vars
SpecResolve == ResolveInit /\ [][ResolveNext]_vars
SpecTime    == TimeInit /\ [][TimeNext]_vars

----------------------------------------------------------------------------
(* Claims about the pose resolver and the timeline arithmetic *)

IsPoseCall == lastOp = "getPoseAtSec" /\ HasActive /\ Len(ActivePics) >= 2

\* start of the segment of the picture at 1-based index i
SegStart(i) == SumSegments(ActivePics, i - 1)

\* v is a + (b - a) * num / den, stated by cross-multiplication
IsLerpOf(v, pa, pb, num, den) ==
    IF pa.fin /\ pb.fin
    THEN /\ v.fin
         /\ v.x.n * den * pa.x.d * pb.x.d
              = v.x.d * (pa.x.n * pb.x.d * den + (pb.x.n * pa.x.d - pa.x.n * pb.x.d) * num)
         /\ v.y.n * den * pa.y.d * pb.y.d
              = v.y.d * (pa.y.n * pb.y.d * den + (pb.y.n * pa.y.d - pa.y.n * pb.y.d) * num)
    ELSE ~v.fin

\* out interpolates the maps pa and pb at progress num / den over the union of their
\* dancers, a dancer of one side only keeping that side's position
IsMoveOf(out, pa, pb, num, den) ==
    /\ DOMAIN out = (DOMAIN pa) \cup (DOMAIN pb)
    /\ \A id \in DOMAIN out :
          IF id \in DOMAIN pa /\ id \in DOMAIN pb
          THEN IsLerpOf(out[id], pa[id], pb[id], num, den)
          ELSE IF id \in DOMAIN pa THEN out[id] = pa[id] ELSE out[id] = pb[id]

IsScenario ==
    /\ Len(ActivePics) = 3
    /\ ActivePics[1].holdSec = 1000 /\ ActivePics[1].moveSec = 2000
    /\ ActivePics[2].holdSec = 0 /\ ActivePics[2].moveSec = 2000

\* v = p + (q - p) * 3/4 on both coordinates (integer inputs)
IsThreeQuarter(v, p, q) ==
    /\ 4 * v.x.n = v.x.d * (p.x.n + 3 * q.x.n)
    /\ 4 * v.y.n = v.y.d * (p.y.n + 3 * q.y.n)

\* v is the midpoint of p and q (integer inputs)
IsMidpoint(v, p, q) ==
    /\ 2 * v.x.n = v.x.d * (p.x.n + q.x.n)
    /\ 2 * v.y.n = v.y.d * (p.y.n + q.y.n)

BothFinite(pa, pb, id) ==
    id \in DOMAIN pa /\ id \in DOMAIN pb /\ pa[id].fin /\ pb[id].fin

DefinedAt(pics, i, d) ==
    {j \in 1..i : d \in DOMAIN pics[j].positions /\ pics[j].positions[d].fin}

\* the gap-filled pose of the picture at 1-based index i, by its definition:
\* each dancer from the nearest picture at or before i that defines it finitely
GapFilled(pics, i) ==
    [d \in {e \in Dancers : DefinedAt(pics, i, e) # {}} |->
        pics[CHOOSE j \in DefinedAt(pics, i, d) :
                 \A j2 \in DefinedAt(pics, i, d) : j2 <= j].positions[d]]

AllFinite(pics) ==
    \A j \in 1..Len(pics) : \A d \in DOMAIN pics[j].positions : pics[j].positions[d].fin

\* C3 (as claimed): with finite stored positions, the pose returned for a hold
\* window or a single picture is the gap-filled pose of its picture (every dancer
\* of an earlier picture, from the nearest picture defining it), and the move
\* window interpolates between the two gap-filled poses.
C3_PoseIsGapFilled ==
    (lastOp = "getPoseAtSec" /\ HasActive /\ Len(ActivePics) >= 1
        /\ AllFinite(ActivePics)) =>
        /\ Len(ActivePics) = 1 => lastOut.pos = GapFilled(ActivePics, 1)
        /\ \A i \in 1..(Len(ActivePics) - 1) :
              LET a  == ActivePics[i]
                  ws == SegStart(i) + HoldOf(a)
              IN  /\ (lastArg >= SegStart(i) /\ lastArg < ws)
                        => lastOut.pos = GapFilled(ActivePics, i)
                  /\ (lastArg > ws /\ lastArg <= ws + MoveOf(a))
                        => IsMoveOf(lastOut.pos, GapFilled(ActivePics, i),
                                    GapFilled(ActivePics, i + 1), lastArg - ws, MoveOf(a))

\* C4: resolvePoseForPicture(pictures, i) holds exactly the dancers with a finite
\* position in some picture 0..i, each with the value of the largest such index;
\* no non-finite entry is emitted; an out-of-range index gives the empty pose.
C4_MonotonicGapFill ==
    lastOp = "resolvePoseForPicture" =>
        IF lastArg < 0 \/ lastArg >= Len(ActivePics)
        THEN lastOut = EmptyPositions
        ELSE /\ lastOut = GapFilled(ActivePics, lastArg + 1)
             /\ \A d \in DOMAIN lastOut : lastOut[d].fin

\* witness of C4: the resolved picture holds a non-finite d2 and a partial map, and
\* d2 is filled from an earlier picture
C4_Witness ==
    /\ lastOp = "resolvePoseForPicture"
    /\ lastArg >= 1 /\ lastArg < Len(ActivePics)
    /\ "d2" \in DOMAIN ActivePics[lastArg + 1].positions
    /\ ~ActivePics[lastArg + 1].positions["d2"].fin
    /\ "d1" \notin DOMAIN ActivePics[lastArg + 1].positions
    /\ lastOut = [d \in Dancers |-> IF d = "d1" THEN Vec(40, 80) ELSE Vec(20, 20)]

\* the sum over pictures 1..n of max(0, hold) + max(eps, move)
RECURSIVE ClaimedSum(_, _)
ClaimedSum(pics, n) ==
    IF n <= 0 THEN 0
    ELSE ClaimedSum(pics, n - 1) + Max(0, pics[n].holdSec) + Max(EPS, pics[n].moveSec)

\* C5 (as claimed): the pictures-only duration, and each picture's start time, is
\* the sum over the pictures before it of max(0, holdSec) + max(eps, moveSec); a
\* moveSec <= 0 contributes exactly eps and the last picture's hold is not counted.
C5_DurationIsFlooredSum ==
    /\ lastOp = "picturesDurationSec"
          => lastOut = ClaimedSum(ActivePics, Len(ActivePics) - 1)
    /\ lastOp = "getPictureStartSec"
          => lastOut = ClaimedSum(ActivePics, Min(lastArg, Len(ActivePics) - 1))

----------------------------------------------------------------------------
(* Playback control and clip binding (Spec) *)

ActiveClip == getActiveMusicClip

\* the refusal conditions as the contract lists them
ClaimedRefusal ==
    \/ ~HasActive
    \/ Len(ActivePics) < 2
    \/ durationSec <= 0
    \/ (ActiveClip.has /\ t_durationSec = 0)

\* C6: a choreo play() called with no active sequence, fewer than 2 pictures,
\* an effective duration <= 0, or a clip bound while no audio is loaded starts
\* nothing: isPlaying and the transport position keep their values, no start
\* is queued and no source is built.
C6_RefusedPlayStartsNothing ==
    [][(lastOp' = "play" /\ ~effectPending /\ ClaimedRefusal)
          => /\ t_isPlaying' = t_isPlaying
             /\ t_currentSec' = t_currentSec
             /\ offsetSec' = offsetSec
             /\ pendingStarts' = pendingStarts
             /\ source' = source]_vars

\* play() has just been refused for a sequence of two pictures whose clip has no audio
C6_Witness ==
    /\ lastOp = "play"
    /\ ~t_isPlaying /\ pendingStarts = <<>>
    /\ HasActive /\ Len(ActivePics) >= 2
    /\ ActiveClip.has /\ t_durationSec = 0

\* C7 (as claimed): the effective duration is the clip length only when a clip
\* is bound and audio is loaded; with a clip bound and no audio loaded it is the
\* pictures-only duration.
C7_ClipDurationNeedsAudio ==
    HasActive =>
        durationSec = IF ActiveClip.has /\ t_durationSec > 0
                      THEN ActiveClip.endSec - ActiveClip.startSec
                      ELSE picturesDurationSec

\* the state right after a choreo seek(lastArg) made while audio is loaded and
\* the transport is paused
SeekDonePaused == lastOp = "seek" /\ t_durationSec > 0 /\ ~t_isPlaying

ClipPushStep ==
    /\ effectPending /\ ~effectPending'
    /\ HasActive /\ ActiveClip.has /\ t_durationSec > 0

TimeAndPlayingKept ==
    /\ t_currentSec' = t_currentSec
    /\ t_isPlaying' = t_isPlaying
    /\ offsetSec' = offsetSec
    /\ pendingStarts' = pendingStarts
    /\ source' = source

\* C9 (as claimed): when the active sequence changed or the transport duration
\* went from 0 to > 0, and the active sequence has a valid clip while audio is
\* loaded, the loop region becomes [clip start, clip end] with looping enabled,
\* and current time and playing state are unchanged.
C9_ClipPushSetsClipBounds ==
    [][(ClipPushStep /\ lastOp \in {"setActiveSequence", "loadComplete"})
          => /\ loopEnabled'
             /\ loopA' = Some(ActiveClip.startSec)
             /\ loopB' = Some(ActiveClip.endSec)
             /\ TimeAndPlayingKept]_vars

\* C9 (amended): every run of the clip-sync effect for a valid clip with audio
\* loaded enables looping over the clip bounds clamped to [0, transport
\* duration], and changes neither the current time nor the playing state.
C9_ClipPushSetsClampedBounds ==
    [][ClipPushStep
          => /\ loopEnabled'
             /\ loopA' = Some(clamp(ActiveClip.startSec, 0, t_durationSec))
             /\ loopB' = Some(clamp(ActiveClip.endSec, 0, t_durationSec))
             /\ TimeAndPlayingKept]_vars

\* audio finished loading for a sequence whose clip runs past the end of the
\* audio: the loop is the clamped clip and the playhead stayed at 0
C9_Witness ==
    /\ lastOp = "loadComplete" /\ ~effectPending
    /\ HasActive /\ ActiveClip.has /\ t_durationSec > 0
    /\ ActiveClip.endSec > t_durationSec
    /\ loopEnabled
    /\ loopA = Some(ActiveClip.startSec) /\ loopB = Some(t_durationSec)
    /\ t_currentSec = 0 /\ ~t_isPlaying

\* C10 (as claimed): clearSequenceMusicClip(id) for the active sequence leaves
\* the loop bounds null and looping disabled; for another sequence neither the
\* handler nor the reaction to the changed sequence list changes loop bounds,
\* loop enabled, current time or playing.
C10_ClearClipFrame ==
    [][/\ (lastOp' = "clearSequenceMusicClip" /\ lastArg' # activeSequenceId')
             => /\ loopA' = loopA /\ loopB' = loopB /\ loopEnabled' = loopEnabled
                /\ t_currentSec' = t_currentSec /\ t_isPlaying' = t_isPlaying
       /\ (lastOp' = "clearSequenceMusicClip" /\ lastArg' = activeSequenceId')
             => /\ loopA' = None /\ loopB' = None /\ ~loopEnabled'
      ]_vars

----------------------------------------------------------------------------
(* Versions, export and import (SpecStore, SpecVersions) *)

\* C11 (as claimed): every sequence with both musicStartSec and musicEndSec set
\* has musicEndSec > musicStartSec.
C11_ClipBoundsOrdered ==
    \A i \in 1..Len(sequences) :
        (sequences[i].musicStartSec.has /\ sequences[i].musicEndSec.has)
            => sequences[i].musicEndSec.val > sequences[i].musicStartSec.val

NewestFirst(vs) == \A i \in 1..(Len(vs) - 1) : vs[i].id > vs[i + 1].id

\* C12: the version list never holds more than 50 entries and is ordered
\* newest first; saveVersion puts the new version at the head, and when the
\* list was full it drops only the last (oldest-saved) entry, the others
\* keeping their order.
C12_VersionHistoryBounded ==
    [][/\ Len(versions') <= 50
       /\ NewestFirst(versions')
       /\ lastOp' = "saveVersion"
             => /\ versions'[1].id = nextVer
                /\ versions'[1].snapshot.sequences = sequences
                /\ versions'[1].snapshot.activeSequenceId = activeSequenceId
                /\ Tail(versions') = IF Len(versions) = 50
                                     THEN SubSeq(versions, 1, 49) ELSE versions
      ]_vars

\* the 51st save in a row: the list is full and version 1 has been dropped
C12_Witness ==
    /\ lastOp = "saveVersion" /\ lastArg = 51
    /\ Len(versions) = 50
    /\ versions[1].id = 51 /\ versions[50].id = 2

\* the payload a recorded importExport call was given
PayloadOf(tag) == CHOOSE d \in ImportPayloads : d.tag = tag

\* what the specification calls an invalid payload: null, a schema that is
\* neither v1 nor v2, or a sequences field that is not an array
ClaimedInvalid(d) ==
    \/ d.null
    \/ d.schema # "choreo-export-v1" /\ d.schema # "choreo-export-v2"
    \/ ~d.seqsIsArray

\* a handler step that the specification says loads a project
LoadingStep ==
    /\ Idle
    /\ \/ lastOp' = "restoreVersion" /\ lastArg' \in VersionIds
       \/ lastOp' = "importExport" /\ ~ClaimedInvalid(PayloadOf(lastArg'))

\* C14: loadToken never decreases; it grows by exactly 1 on each restoreVersion
\* of an existing version and each importExport of a valid payload, and every
\* other step (a rejected import and a restore of an unknown id included)
\* leaves it unchanged.
C14_LoadTokenCountsLoads ==
    [][loadToken' = loadToken + (IF LoadingStep THEN 1 ELSE 0)]_vars

\* a restore of an existing version after an earlier load
C14_Witness ==
    /\ lastOp = "restoreVersion" /\ lastArg \in VersionIds
    /\ loadToken = 2

\* C15: an importExport call with a rejected payload leaves sequences,
\* activeSequenceId, versions, loadToken and the transport state unchanged.
C15_RejectedImportChangesNothing ==
    [][(Idle /\ lastOp' = "importExport" /\ ClaimedInvalid(PayloadOf(lastArg')))
          => UNCHANGED <<sequences, activeSequenceId, versions, loadToken,
                         transportVars>>]_vars

\* a payload without a sequences array was rejected while a project with a
\* saved version was held at its clip start
C15_Witness ==
    /\ lastOp = "importExport" /\ lastArg = NoSequencesPayload.tag
    /\ Len(sequences) > 0 /\ Len(versions) > 0
    /\ loadToken > 0 /\ t_currentSec > 0

----------------------------------------------------------------------------
(* Picture editing (SpecEdit)                                               *)

\* a duration that is a number within [lo, hi]; NaN is within no range
WithinSeconds(x, lo, hi) == x # NaNSec /\ lo <= x /\ x <= hi

\* C18 (as claimed): after any sequence of addPicture, addPictureAtTime,
\* setHoldDuration, setMoveDuration (any numeric argument), setPictureKind and
\* delete operations from the empty project, every picture of every sequence
\* has 0 <= holdSec <= 60 and 0.1 <= moveSec <= 60.
C18_DurationBounds ==
    \A i \in 1..Len(sequences) : \A j \in 1..Len(sequences[i].pictures) :
        /\ WithinSeconds(sequences[i].pictures[j].holdSec, 0, 60000)
        /\ WithinSeconds(sequences[i].pictures[j].moveSec, 100, 60000)

\* the sequence addPictureAtTime inserts into, before and after the step
TargetIndexId == IF activeSequenceId # 0 THEN activeSequenceId ELSE sequences[1].id
TargetIndex   == CHOOSE i \in 1..Len(sequences) : sequences[i].id = TargetIndexId

\* the split the specification describes for a picture of durations hold and
\* move that has to end `delta` after its start: the hold gives way first,
\* down to 0, and only then the move, down to the 0.2 floor
ClaimedHold(hold, move, delta) == Max(0, hold - (hold + move - delta))
ClaimedMove(hold, move, delta) ==
    Max(200, move - ((hold + move - delta) - (hold - ClaimedHold(hold, move, delta))))

\* C19 (as claimed): addPictureAtTime at atSec inside the window
\* [start, start+hold+move) of a picture shrinks that picture's hold first
\* (down to 0) and only then its move (floor 0.2), so hold=1, move=2, atSec=0.5
\* leaves hold=0 and move=0.5; the new picture comes right after that picture
\* and no other picture's durations change.
C19_SplitShrinksHoldFirst ==
    [][(/\ Idle /\ lastOp' = "addPictureAtTime"
        /\ Len(sequences) > 0
        /\ \E i \in 1..Len(sequences) : sequences[i].id = TargetIndexId
        /\ lastArg' > 0
        /\ lastArg' < SumSegments(sequences[TargetIndex].pictures,
                                  Len(sequences[TargetIndex].pictures)))
          => LET pics  == sequences[TargetIndex].pictures
                 after == sequences'[TargetIndex].pictures
                 a     == InsertAfter(pics, lastArg')
                 delta == lastArg' - SumSegments(pics, a - 1)
             IN  /\ Len(after) = Len(pics) + 1
                 /\ after[a + 1].id = nextId
                 /\ \A j \in 1..Len(pics) : j # a =>
                       after[IF j < a THEN j ELSE j + 1] = pics[j]
                 /\ delta > 0 =>
                       /\ after[a].holdSec =
                             ClaimedHold(HoldOf(pics[a]), MoveOf(pics[a]), delta)
                       /\ after[a].moveSec =
                             ClaimedMove(HoldOf(pics[a]), MoveOf(pics[a]), delta)
      ]_vars

----------------------------------------------------------------------------
(* Deleting (SpecDelete)                                                    *)

\* a handler step that deletes the active sequence
DeletesActiveSequence ==
    /\ Idle /\ lastOp' = "deleteSequence"
    /\ HasActive /\ lastArg' = activeSequenceId

\* a handler step that deletes the last picture of the active sequence
DeletesLastActivePicture ==
    /\ Idle /\ lastOp' = "deletePicture"
    /\ Len(ActivePics) > 0 /\ lastArg' = ActivePics[Len(ActivePics)].id

\* C17 (as claimed): after deleteSequence of the active sequence, and after
\* deletePicture of the active sequence's last picture, the transport is paused
\* at the start of the resulting active sequence (its clip start when it has a
\* valid clip, otherwise 0); after deleting the active sequence the new active
\* sequence is the first remaining one, or null when none remain.
C17_DeleteResetsToActiveStart ==
    [][(DeletesActiveSequence \/ DeletesLastActivePicture)
          => /\ ~t_isPlaying'
             /\ t_currentSec' = ClipStartOf(FindSeq(sequences', activeSequenceId'))
             /\ DeletesActiveSequence
                   => activeSequenceId' = IF Len(sequences') > 0
                                          THEN sequences'[1].id ELSE 0
      ]_vars

----------------------------------------------------------------------------
(* Export round trip (SpecExport)                                           *)

\* C16 (as claimed): in every reachable project state,
\* importExport(buildExport(true)) leaves the live sequence list (order, ids,
\* picture kinds, positions, hold and move durations, clip bounds), the
\* activeSequenceId and the version list as they were exported; buildExport
\* itself changes no state.
C16_ExportRoundTrip ==
    [][/\ (Idle /\ lastOp' = "importExport" /\ lastArg' = buildExport(TRUE).tag)
            => /\ sequences' = sequences
               /\ activeSequenceId' = activeSequenceId
               /\ versions' = versions
       /\ (Idle /\ lastOp' = "buildExport")
            => UNCHANGED <<choreoVars, transportVars>>
      ]_vars

----------------------------------------------------------------------------
(* Snapshot independence (SpecSnapshots)                                    *)

\* the live state the specification expects of a restore: the snapshot's
\* sequences, and its active sequence (the first one when it recorded none)
RestoredFrom(snap) ==
    [sequences |-> snap.sequences,
     activeSequenceId |->
        IF snap.activeSequenceId # 0 THEN snap.activeSequenceId
        ELSE IF Len(snap.sequences) > 0 THEN snap.sequences[1].id ELSE 0]

\* C13: no operation on the live state changes the snapshot of a stored
\* version, before or after that version was restored; a restore of v installs
\* what v's snapshot holds, so a second restore of v yields the live state the
\* first one did.
C13_SnapshotIndependence ==
    [][/\ \A i \in 1..Len(versions), j \in 1..Len(versions') :
             versions'[j].id = versions[i].id
                => versions'[j].snapshot = versions[i].snapshot
       /\ \A i \in 1..Len(versions) :
             (Idle /\ lastOp' = "restoreVersion" /\ lastArg' = versions[i].id)
                => [sequences |-> sequences', activeSequenceId |-> activeSequenceId']
                      = RestoredFrom(versions[i].snapshot)
      ]_vars

\* version 1 restored for the second time, the live project having been
\* edited by addPictureAtTime after the first restore
C13_Witness ==
    /\ lastOp = "restoreVersion" /\ lastArg = 1
    /\ loadToken = 2
    /\ nextId > 3
    /\ Len(versions) = 1 /\ PictureIdsOf(versions[1].snapshot.sequences) # {}

----------------------------------------------------------------------------
(* Route arrows (SpecRoutes)                                                *)

IsRouteCall == lastOp = "computeRoutesForSelection"
RouteSel    == lastArg[1]
RouteTime   == lastArg[2]

ClaimedMain(j) == ActivePics[j + 1].kind = "main"

\* the Main picture at or nearest before index i, -1 when there is none
ClaimedMainAtOrBefore(i) ==
    LET mains == {j \in 0..i : ClaimedMain(j)}
    IN  IF mains = {} THEN -1 ELSE CHOOSE j \in mains : \A k \in mains : j >= k

\* the from-anchor the specification names: the selected picture or its nearest
\* preceding Main; without a (known) selection, the Main resolved from the
\* latest picture whose start time is <= currentTimeSec
ClaimedFrom ==
    LET sel     == {i \in 0..(Len(ActivePics) - 1) : ActivePics[i + 1].id = RouteSel}
        started == {i \in 0..(Len(ActivePics) - 1) : SumSegments(ActivePics, i) <= RouteTime}
    IN  IF RouteSel # 0 /\ sel # {}
        THEN ClaimedMainAtOrBefore(CHOOSE i \in sel : TRUE)
        ELSE IF started = {} THEN -1
        ELSE ClaimedMainAtOrBefore(CHOOSE i \in started : \A k \in started : i >= k)

\* the next Main picture after the from-anchor, -1 when there is none
ClaimedTo ==
    LET mains == {j \in (ClaimedFrom + 1)..(Len(ActivePics) - 1) : ClaimedMain(j)}
    IN  IF ClaimedFrom < 0 \/ mains = {} THEN -1
        ELSE CHOOSE j \in mains : \A k \in mains : j <= k

\* the arrows from the gap-filled pose of the from-anchor to that of the next Main
ClaimedArrows ==
    LET fromPose == resolvePoseForPicture(ActivePics, ClaimedFrom)
        toPose   == resolvePoseForPicture(ActivePics, ClaimedTo)
    IN  {[dancerId |-> d, fromPos |-> fromPose[d], toPos |-> toPose[d]] :
            d \in (DOMAIN fromPose) \cap (DOMAIN toPose)}

\* the picture that gap-filling takes dancer d's position from, at 0-based index i
GapSource(i, d) ==
    LET has == {j \in 0..i : d \in DOMAIN ActivePics[j + 1].positions
                              /\ ActivePics[j + 1].positions[d].fin}
    IN  CHOOSE j \in has : \A k \in has : j >= k

----------------------------------------------------------------------------
(* The loop region, driven from the transport bar and the clip selector:    *)
(* the marks are set in either order and on either side of each other.      *)

LoopMarks      == {5000, 15000}              \* loop marks, on both sides of each other
TransportClips == {<<15000, 5000>>}          \* clips handed to t.setClip directly
LoopSeeks      == {0, 15000}                 \* seek targets: outside the marks, on the end mark

SetClip(startSec, endSec) ==
    TransportCall("t.setClip", startSec, t_setClip(Tr, startSec, endSec, TRUE))

LoopNext ==
    \/ \E sec \in LoopMarks : SetLoopAAt(sec)
    \/ \E sec \in LoopMarks : SetLoopBAt(sec)
    \/ \E c \in TransportClips : SetClip(c[1], c[2])
    \/ ToggleLoop
    \/ ClearLoop
    \/ TransportPlay
    \/ TransportPause
    \/ \E sec \in LoopSeeks : TransportSeek(sec)
    \/ \E dur \in AudioDurations : loadAudioFile(dur)
    \/ LoadComplete
    \/ ResumeComplete
    \/ ClipSyncEffect

SpecLoop == Init /\ [][LoopNext]_vars

----------------------------------------------------------------------------
(* C21 *)

\* C21: whenever both loop bounds are set, loopStart <= loopEnd (the transport
\* keeps one value per bound: the rendered state and the ref that tick and seek
\* read), and setLoopBAt always leaves looping enabled.
C21_LoopBoundsOrdered ==
    /\ (loopA.has /\ loopB.has) => loopA.val <= loopB.val
    /\ lastOp = "t.setLoopBAt" => loopEnabled

----------------------------------------------------------------------------
(* C22 *)

\* t.seek(sec) is called on a paused transport with audio whose loop is active
SeekInLoopStep ==
    /\ lastOp' = "t.seek"
    /\ t_durationSec > 0 /\ ~t_isPlaying
    /\ LoopActive(Tr)

\* C22: with looping enabled on [loopStart, loopEnd], loopEnd > loopStart, a
\* seek to exactly loopEnd leaves the current time at loopStart and the loop
\* enabled, while a seek strictly outside the region disables looping and
\* puts the current time at the requested time clamped to the duration
\* (checked where seek stores the time itself: on a paused transport).
C22_SeekAtLoopEndWraps ==
    [][SeekInLoopStep =>
         LET clamped == Max(0, Min(t_durationSec, lastArg'))
         IN  IF clamped = loopB.val
             THEN t_currentSec' = loopA.val /\ loopEnabled'
             ELSE IF clamped < loopA.val \/ clamped > loopB.val
             THEN t_currentSec' = clamped /\ ~loopEnabled'
             ELSE TRUE]_vars

----------------------------------------------------------------------------
(* C23 *)

\* the tick runs while a loop is active
TickInLoopStep ==
    /\ lastOp' = "tick"
    /\ t_isPlaying
    /\ LoopActive(Tr)

\* C23: while playing with an enabled loop [A, B], B > A, every current time
\* the tick publishes lies in [A, B), and a raw clock position p >= B is
\* published as A + ((p - A) mod (B - A)).
C23_TickWrapsModulo ==
    [][TickInLoopStep =>
         LET p == clockSec + offsetSec
         IN  /\ loopA.val <= t_currentSec' /\ t_currentSec' < loopB.val
             /\ p >= loopB.val =>
                   t_currentSec' = loopA.val + ((p - loopA.val) % (loopB.val - loopA.val))]_vars

----------------------------------------------------------------------------
(* C24 *)

\* loadAudioFile is called while the transport is playing
LoadWhilePlayingStep == lastOp' = "t.loadAudioFile" /\ t_isPlaying

\* an 'ended' callback turns isPlaying off
EndedStopsPlaybackStep == lastOp' = "onended" /\ t_isPlaying /\ ~t_isPlaying'

\* C24: loadAudioFile called while playing stops playback (isPlaying false, by
\* which the tick stops, and no source), clears the loop region, disables looping and resets the
\* current time to 0; and the 'ended' callback of a source created before the
\* load never turns isPlaying off afterwards: only the end of the source that
\* is playing now does.
C24_LoadStopsPlayback ==
    [][/\ LoadWhilePlayingStep =>
             /\ ~t_isPlaying' /\ source' = NoSource
             /\ ~loopEnabled' /\ loopA' = None /\ loopB' = None
             /\ t_currentSec' = 0
       /\ EndedStopsPlaybackStep =>
             /\ source.live /\ ~source.loop
             /\ offsetSec + clockSec >= source.dur]_vars

\* playback runs again, started after a loadAudioFile call that stopped an
\* earlier source and has not finished decoding
C24_Witness ==
    /\ t_isPlaying /\ source.live
    /\ pendingLoads # <<>>
    /\ clockSec > 0

----------------------------------------------------------------------------
(* Loading audio: two files of different lengths, the second one picked     *)
(* while the first is still being decoded.                                  *)

MaxOverlappingLoads == 2                     \* loadAudioFile() calls decoding at once
LoadDurations       == {20000, 30000}        \* decoded lengths of the two files

LoadNext ==
    \/ \E dur \in LoadDurations : loadAudioFileWithin(dur, MaxOverlappingLoads)
    \/ LoadComplete
    \/ ClipSyncEffect
    \/ TransportPlay
    \/ TransportPause
    \/ ResumeComplete

SpecLoad == Init /\ [][LoadNext]_vars

----------------------------------------------------------------------------
(* C25 *)

\* C25: once every loadAudioFile call has completed, whatever the order in
\* which the decodes completed, the transport's buffer and duration are those
\* of the load started most recently (the file audioName names).
C25_LatestLoadWins ==
    (pendingLoads = <<>> /\ audioName # 0) => t_durationSec = audioName

----------------------------------------------------------------------------
(* C26 *)

\* setSequenceMusicClip is called for the active sequence with audio loaded
ClipCommitStep ==
    /\ Idle /\ lastOp' = "setSequenceMusicClip"
    /\ HasActive /\ lastArg' = activeSequenceId
    /\ t_durationSec > 0

\* C26: setSequenceMusicClip on the active sequence with audio loaded makes
\* the transport's loop region the clip (clamped to the audio), and leaves the
\* transport's current time and playing state unchanged: it does not seek.
C26_ClipCommitDoesNotSeek ==
    [][ClipCommitStep =>
          /\ loopA' = Some(clamp(ActiveClip.startSec', 0, t_durationSec))
          /\ loopB' = Some(clamp(ActiveClip.endSec', 0, t_durationSec))
          /\ t_currentSec' = t_currentSec
          /\ t_isPlaying' = t_isPlaying
          /\ offsetSec' = offsetSec
          /\ pendingStarts' = pendingStarts]_vars

----------------------------------------------------------------------------
(* C27 *)

\* steps that are no call of the user: continuations and callbacks
Continuations == {"startAt", "loadComplete", "onended", "tick", "clock"}

\* C27: once pause() has been called, and as long as no play, seek, loop or
\* clip operation is invoked, the transport does not become playing again,
\* also when a startAt() issued before the pause completes after it (checked
\* for the step that follows the pause).
C27_PauseWinsOverPendingStart ==
    [][(lastOp = "t.pause" /\ lastOp' \in Continuations) => ~t_isPlaying']_vars

----------------------------------------------------------------------------
(* C28 *)

\* pause() is called while a looping source plays that was started inside
\* the active loop region
PauseInLoopStep ==
    /\ lastOp' = "t.pause"
    /\ t_isPlaying /\ source.live /\ source.loop
    /\ LoopActive(Tr)
    /\ loopA.val <= offsetSec /\ offsetSec <= loopB.val

\* C28: while looping is enabled on [A, B], B > A, and playback was started
\* inside the region, the current time pause() stores and publishes lies
\* within [A, B] and is the wrapped position the tick would have published
\* at that instant, however often the playhead has wrapped.
C28_PauseKeepsPlayheadInLoop ==
    [][PauseInLoopStep =>
          /\ loopA.val <= t_currentSec' /\ t_currentSec' <= loopB.val
          /\ t_currentSec' = tickPos(Tr)
          /\ offsetSec' = t_currentSec']_vars

----------------------------------------------------------------------------
(* Reloading audio under a bound clip.  React runs a pending effect and the *)
(* browser settles a decode without waiting for the user: both are weakly   *)
(* fair.  The calls of the user are not.                                    *)

ReloadNext ==
    \/ createSequence
    \/ \E c \in ClipInputs : setSequenceMusicClip(activeSequenceId, c[1], c[2])
    \/ \E dur \in AudioDurations : loadAudioFile(dur)
    \/ LoadComplete
    \/ ClipSyncEffect

SpecReload ==
    /\ Init /\ [][ReloadNext]_vars
    /\ WF_vars(ClipSyncEffect)
    /\ WF_vars(LoadComplete)

----------------------------------------------------------------------------
(* C29 *)

\* audio is loaded, no load is in progress, the active sequence has a valid clip
ClipBindable ==
    /\ t_durationSec > 0 /\ pendingLoads = <<>>
    /\ HasActive /\ ActiveClip.has

\* the loop region is the active clip clamped to the audio, looping enabled
ClipBound ==
    /\ loopEnabled
    /\ loopA = Some(clamp(ActiveClip.startSec, 0, t_durationSec))
    /\ loopB = Some(clamp(ActiveClip.endSec, 0, t_durationSec))

\* C29: whenever audio is loaded, no load is in progress and the active
\* sequence has a valid bound clip, the transport's loop region eventually
\* equals that clip clamped to the audio, with looping enabled - also after
\* loadAudioFile replaced the audio by a file of the same duration.
C29_ClipBindingSurvivesReload == ClipBindable ~> ClipBound

----------------------------------------------------------------------------
(* The active sequence under every operation that changes the sequence list *)
(* or the active id.                                                        *)

ValidPayloads == {LegacyPayload, InvertedClipPayload}   \* schema-valid files
ActiveAtSec   == {500}                                  \* addPictureAtTime targets

ActiveNext ==
    \/ createSequence
    \/ \E id \in SeqIds : setActiveSequence(id)
    \/ \E id \in SeqIds : deleteSequence(id)
    \/ \E ps \in MainPositions, k \in PictureKinds : addPicture(ps, k)
    \/ \E ps \in MainPositions, at \in ActiveAtSec, k \in PictureKinds :
          addPictureAtTime(ps, at, k)
    \/ (nextVer <= MaxSnapshots /\ saveVersion)
    \/ \E id \in VersionIds : restoreVersion(id)
    \/ \E data \in ValidPayloads : importExport(data)
    \/ ClipSyncEffect

SpecActive == Init /\ [][ActiveNext]_vars

----------------------------------------------------------------------------
(* C30 *)

\* C30: activeSequenceId is null or the id of a sequence of the live list,
\* and it is not null when the live list is not empty.
C30_ActiveSequenceValid ==
    /\ activeSequenceId = 0 \/ activeSequenceId \in SeqIds
    /\ sequences # <<>> => activeSequenceId # 0

=============================================================================
